---- MODULE Spec2Model ----
(***************************************************************************)
(* Push-to-talk pipeline of voice-to-text-tauri: the coordinator of        *)
(* main.ts (startPushToTalk / stopPushToTalk), DeepgramClient              *)
(* (deepgram.ts) with the browser WebSockets it creates, and AudioCapture  *)
(* (audio.ts) with the microphone graphs it builds.                        *)
(*                                                                         *)
(* Everything runs on one event loop.  An action is one task of that loop: *)
(* an event handler together with the promise continuations (microtasks)   *)
(* it makes runnable, up to the next await of a real asynchronous          *)
(* operation (WebSocket handshake, getUserMedia).                          *)
(*                                                                         *)
(* The program state is handled as a record p; every method of the source  *)
(* is an operator from records to records, and an action commits the       *)
(* record its handler returns.                                             *)
(***************************************************************************)
EXTENDS Integers, Sequences, FiniteSets, TLC

\* ---------------------------------------------------------------- bounds

\* Number of startPushToTalk() invocations that get past the isHolding guard.
\* Each one creates at most one WebSocket and at most one getUserMedia request.
MaxAct == 2

\* Number of onaudioprocess callbacks.
MaxChunks == 2

\* Number of inbound messages delivered to ws.onmessage.
MaxMsgs == 2

Acts == 1..MaxAct
Sockets == 1..MaxAct
Graphs == 1..MaxAct

\* ------------------------------------------------------- sample encoding

\* Samples are rationals n / SampleDen; a block is a sequence of numerators.
SampleDen == 4

\* Blocks the microphone delivers: <<0.5>> and <<-1.0, 2.0>>.
Blocks == { <<2>>, <<-4, 8>> }

\* Blocks float32ToLinear16 is applied to on its own: every block of at most
\* MaxBlockLen samples between -2.0 and 2.0.
MaxBlockLen == 2
Samples == (-2 * SampleDen)..(2 * SampleDen)
EncInputs == UNION { [1..n -> Samples] : n \in 0..MaxBlockLen }

Max(a, b) == IF a >= b THEN a ELSE b
Min(a, b) == IF a <= b THEN a ELSE b

\* Truncation toward zero of n / d, d > 0 (ToInt16's first step).
TruncDiv(n, d) == IF n >= 0 THEN n \div d ELSE -((-n) \div d)

\* Line 21 scaling by 0x7fff on both sides.
sampleToInt16_Symmetric(n) ==
    LET s == Max(-SampleDen, Min(SampleDen, n))
        u == TruncDiv(s * 32767, SampleDen) % 65536
    IN  IF u >= 32768 THEN u - 65536 ELSE u

\* deepgram.ts:18-22: clamp to [-1, 1], scale by 0x8000 or 0x7fff; then
\* DataView.setInt16 truncates and wraps modulo 2^16.
sampleToInt16(n) ==
    LET s == Max(-SampleDen, Min(SampleDen, n))
        scaled == IF s < 0 THEN TruncDiv(s * 32768, SampleDen)
                           ELSE TruncDiv(s * 32767, SampleDen)
        u == scaled % 65536
    IN  IF u >= 32768 THEN u - 65536 ELSE u

\* deepgram.ts:13-27: 2 bytes per sample, little-endian two's complement.
float32ToLinear16(chunk) ==
    [k \in 1..(2 * Len(chunk)) |->
        LET u == sampleToInt16(chunk[(k + 1) \div 2]) % 65536
        IN  IF k % 2 = 1 THEN u % 256 ELSE u \div 256]

BinaryFrame(bytes) == [kind |-> "binary", bytes |-> bytes, text |-> ""]
TextFrame(text) == [kind |-> "text", bytes |-> <<>>, text |-> text]

\* deepgram.ts:121: JSON.stringify({ type: "Finalize" })
FinalizeMessage == TextFrame("{\"type\":\"Finalize\"}")

\* -------------------------------------------------------- inbound messages

\* A text is a sequence of characters.
Space == " "
EmptyText == << >>
BlankText == << " ", " " >>
PaddedText == << " ", "h", "i" >>

\* event.data as JSON.parse sees it: parse is FALSE when JSON.parse throws;
\* type is data.type ("" when absent); alts holds the transcript of every
\* entry of data.channel.alternatives (<<>> when the path is absent).
Message(parse, type, alts) == [parse |-> parse, type |-> type, alts |-> alts]

Malformed == Message(FALSE, "", << >>)
NoMsg == Message(FALSE, "none", << >>)

Msgs ==
    { Malformed,
      Message(TRUE, "Metadata", << PaddedText >>),
      Message(TRUE, "Results", << >>),
      Message(TRUE, "Results", << EmptyText, PaddedText >>),
      Message(TRUE, "Results", << BlankText >>),
      Message(TRUE, "Results", << PaddedText >>),
      Message(TRUE, "RESULTS", << PaddedText >>) }

\* String.prototype.toLowerCase on the type names above
ToLowerCase(t) ==
    CASE t = "Results"  -> "results"
      [] t = "RESULTS"  -> "results"
      [] t = "Metadata" -> "metadata"
      [] OTHER          -> t

\* String.prototype.trim: leading and trailing white space removed
Trim(t) ==
    LET keep == {i \in 1..Len(t) : t[i] # Space}
    IN  IF keep = {} THEN << >>
        ELSE LET lo == CHOOSE i \in keep : \A j \in keep : i <= j
                 hi == CHOOSE i \in keep : \A j \in keep : j <= i
             IN  SubSeq(t, lo, hi)

\* ----------------------------------------------------------------- state

VARIABLES
    \* main.ts
    isHolding,      \* main.ts:94
    acts,           \* the startPushToTalk() invocations and where each awaits
    uiStatus,       \* UiController.setStatus
    uiError,        \* UiController.setError / clearError
    \* deepgram.ts and the WebSockets
    socket,         \* DeepgramClient.socket, 0 is null
    readyState,     \* WebSocket.readyState per socket ("NONE": not created)
    wire,           \* frames each socket transmitted, in order
    \* audio.ts and the microphone graphs
    mediaStream, audioContext, sourceNode, processorNode,   \* 0 is null
    graph,          \* per getUserMedia request: the stream and its processor
    \* observation of the run (never read by the handlers)
    hist,
    lastOp,
    \* float32ToLinear16 on its own: the block handed in, the bytes returned
    encIn, encOut

progVars == << isHolding, acts, uiStatus, uiError, socket, readyState, wire,
               mediaStream, audioContext, sourceNode, processorNode, graph,
               hist >>

vars == << progVars, lastOp, encIn, encOut >>

NoAct == [pc |-> "unused", sock |-> 0, mic |-> 0, result |-> ""]
NoGraph == [stream |-> "none", processing |-> FALSE]

InitHist ==
    [ closeCalls  |-> [s \in Sockets |-> 0],   \* WebSocket.close() calls
      finSends    |-> [s \in Sockets |-> 0],   \* send(Finalize) calls
      threw       |-> FALSE,                   \* an exception left sendAudioChunk
      startCalls  |-> 0,                       \* AudioCapture.start() calls
      chunks      |-> 0,                       \* onaudioprocess callbacks
      stopped     |-> FALSE,                   \* stop() returned, no start() since
      finActive   |-> FALSE,                   \* deactivate sent Finalize, capture active
      finCalls    |-> 0,                       \* finalizeAndClose() calls
      finTargets  |-> {},                      \* sockets alive at a finalizeAndClose()
      finStreaming |-> {},                     \* sockets finalizeAndClose() met Streaming
      finAgain    |-> {},                      \* ... and that met a later call
      overlapped  |-> FALSE,                   \* activate() or deactivate() ran with
                                               \* a startPushToTalk() still awaiting
      errorSinkCalls |-> 0,                    \* onError invocations
      msgs        |-> 0,                       \* messages delivered
      msg         |-> NoMsg,                   \* the message the last task delivered
      msgOn       |-> 0,                       \* ... and the socket it arrived on
      logged      |-> FALSE,                   \* console.error of line 103 was called
      sinkCalls   |-> 0,                       \* onTranscript invocations
      lastSink    |-> EmptyText,               \* the text of the last one
      cur         |-> [act |-> 0, blocks |-> <<>>] ]  \* blocks since activate() succeeded

State ==
    [ isHolding |-> isHolding, acts |-> acts, uiStatus |-> uiStatus,
      uiError |-> uiError, socket |-> socket, readyState |-> readyState,
      wire |-> wire, mediaStream |-> mediaStream, audioContext |-> audioContext,
      sourceNode |-> sourceNode, processorNode |-> processorNode,
      graph |-> graph, hist |-> hist ]

Commit(p, op) ==
    /\ isHolding' = p.isHolding
    /\ acts' = p.acts
    /\ uiStatus' = p.uiStatus
    /\ uiError' = p.uiError
    /\ socket' = p.socket
    /\ readyState' = p.readyState
    /\ wire' = p.wire
    /\ mediaStream' = p.mediaStream
    /\ audioContext' = p.audioContext
    /\ sourceNode' = p.sourceNode
    /\ processorNode' = p.processorNode
    /\ graph' = p.graph
    /\ hist' = IF op \in {"message", "messageDiscarded"}
               THEN p.hist
               ELSE [p.hist EXCEPT !.msg = NoMsg, !.msgOn = 0]
    /\ lastOp' = op
    /\ UNCHANGED << encIn, encOut >>

InitProgram ==
    /\ isHolding = FALSE
    /\ acts = [a \in Acts |-> NoAct]
    /\ uiStatus = "Idle"
    /\ uiError = ""
    /\ socket = 0
    /\ readyState = [s \in Sockets |-> "NONE"]
    /\ wire = [s \in Sockets |-> <<>>]
    /\ mediaStream = 0
    /\ audioContext = 0
    /\ sourceNode = 0
    /\ processorNode = 0
    /\ graph = [g \in Graphs |-> NoGraph]
    /\ hist = InitHist
    /\ lastOp = "init"

Init ==
    /\ InitProgram
    /\ encIn = << >>
    /\ encOut = << >>

\* -------------------------------------------------------------- WebSocket

\* WebSocket.send: InvalidStateError while CONNECTING, transmitted while OPEN,
\* silently discarded while CLOSING or CLOSED.
wsSendThrows(p, s) == p.readyState[s] = "CONNECTING"

wsSend(p, s, frame) ==
    IF p.readyState[s] = "OPEN"
    THEN [p EXCEPT !.wire[s] = Append(@, frame)]
    ELSE p

\* WebSocket.close: starts the closing handshake; nothing if CLOSING or CLOSED.
wsClose(p, s) ==
    [p EXCEPT !.readyState[s] = IF @ \in {"CONNECTING", "OPEN"} THEN "CLOSING" ELSE @,
              !.hist.closeCalls[s] = @ + 1]

\* The socket `new WebSocket` returns: the first one not yet created.
NewSocket(p) ==
    CHOOSE s \in Sockets :
        /\ p.readyState[s] = "NONE"
        /\ \A t \in Sockets : t < s => p.readyState[t] # "NONE"

\* ---------------------------------------------------------- DeepgramClient

\* deepgram.ts:41-43
isConnected(p) == p.socket # 0 /\ p.readyState[p.socket] = "OPEN"

\* deepgram.ts:45-60: the synchronous part of connect().  ws is the socket
\* whose open or error event settles the returned promise, 0 when connect()
\* returned at line 46.
connect(p) ==
    IF isConnected(p)
    THEN [p |-> p, ws |-> 0]
    ELSE LET s == NewSocket(p)
         IN  [p |-> [p EXCEPT !.readyState[s] = "CONNECTING"], ws |-> s]

\* sendAudioChunk() without the guard of line 110: a null socket is dereferenced.
sendAudioChunk_NoGuard(p, chunk) ==
    IF p.socket = 0 \/ wsSendThrows(p, p.socket)
    THEN [p EXCEPT !.hist.threw = TRUE]
    ELSE wsSend(p, p.socket, BinaryFrame(float32ToLinear16(chunk)))

\* deepgram.ts:109-114
sendAudioChunk(p, chunk) ==
    IF ~isConnected(p) \/ p.socket = 0
    THEN p
    ELSE IF wsSendThrows(p, p.socket)
         THEN [p EXCEPT !.hist.threw = TRUE]
         ELSE wsSend(p, p.socket, BinaryFrame(float32ToLinear16(chunk)))

\* finalizeAndClose() without line 127: the reference to the socket is kept.
finalizeAndClose_KeepSocket(p, by) ==
    IF p.socket = 0
    THEN p
    ELSE LET s  == p.socket
             p0 == [p EXCEPT !.hist.finSends[s] = @ + 1,
                             !.hist.finActive =
                                 @ \/ (by = "deactivate" /\ p.audioContext # 0)]
             p1 == IF wsSendThrows(p0, s) THEN p0 ELSE wsSend(p0, s, FinalizeMessage)
         IN  wsClose(p1, s)

\* deepgram.ts:116-128.  by names the caller and is only recorded.
finalizeAndClose(p, by) ==
    IF p.socket = 0
    THEN p
    ELSE LET s  == p.socket
             p0 == [p EXCEPT !.hist.finSends[s] = @ + 1,
                             !.hist.finActive =
                                 @ \/ (by = "deactivate" /\ p.audioContext # 0)]
             p1 == IF wsSendThrows(p0, s) THEN p0 ELSE wsSend(p0, s, FinalizeMessage)
             p2 == wsClose(p1, s)
         IN  [p2 EXCEPT !.socket = 0]

\* A call of finalizeAndClose(), with what the call met written down first.
CallFinalizeAndClose(p, by) ==
    LET alive == {s \in Sockets : p.readyState[s] \in {"CONNECTING", "OPEN"}}
        q == [p EXCEPT !.hist.finCalls = @ + 1,
                       !.hist.finTargets = @ \cup alive,
                       !.hist.finAgain = @ \cup p.hist.finStreaming,
                       !.hist.finStreaming =
                           IF isConnected(p) THEN @ \cup {p.socket} ELSE @]
    IN  finalizeAndClose(q, by)

\* ------------------------------------------------------------ AudioCapture

\* audio.ts:26-28
isActive(p) == p.audioContext # 0

NewGraph(p) ==
    CHOOSE g \in Graphs :
        /\ p.graph[g].stream = "none"
        /\ \A t \in Graphs : t < g => p.graph[t].stream # "none"

\* audio.ts:30-41: start() up to the await of getUserMedia.  req is the
\* request awaited, 0 when start() returned at line 32.
start(p) ==
    LET q == [p EXCEPT !.hist.startCalls = @ + 1, !.hist.stopped = FALSE]
    IN  IF isActive(q)
        THEN [p |-> q, req |-> 0]
        ELSE LET g == NewGraph(q)
             IN  [p |-> [q EXCEPT !.graph[g].stream = "pending"], req |-> g]

\* audio.ts:36-71: start() from the moment getUserMedia resolves with stream g.
startResume(p, g) ==
    [p EXCEPT !.mediaStream = g,
              !.audioContext = g,
              !.sourceNode = g,
              !.processorNode = g,
              !.graph[g] = [stream |-> "live", processing |-> TRUE]]

\* audio.ts:74-101
stop(p) ==
    LET p1 == IF p.processorNode # 0
              THEN [p EXCEPT !.graph[p.processorNode].processing = FALSE]
              ELSE p
        p2 == IF p1.mediaStream # 0
              THEN [p1 EXCEPT !.graph[p1.mediaStream].stream = "stopped"]
              ELSE p1
    IN  [p2 EXCEPT !.mediaStream = 0,
                   !.audioContext = 0,
                   !.sourceNode = 0,
                   !.processorNode = 0,
                   !.hist.stopped = TRUE]

\* main.ts:79-81 called from audio.ts:57-65
onaudioprocess(p, chunk) ==
    LET q == [p EXCEPT !.hist.chunks = @ + 1,
                       !.hist.cur.blocks =
                           IF p.hist.cur.act # 0 THEN Append(@, chunk) ELSE @]
    IN  sendAudioChunk(q, chunk)

\* ------------------------------------------------------------- coordinator

UsedActs(p) == {a \in Acts : p.acts[a].pc # "unused"}
NextAct(p) == CHOOSE a \in Acts \ UsedActs(p) : \A b \in Acts \ UsedActs(p) : a <= b
LastAct(p) == CHOOSE a \in UsedActs(p) : \A b \in UsedActs(p) : b <= a

\* Where the invocation that set isHolding stands when activate() is called again.
Phase(p) ==
    LET pc == p.acts[LastAct(p)].pc
    IN  IF pc = "connect" THEN "awaitingConnect"
        ELSE IF pc = "mic" THEN "awaitingMicrophone"
        ELSE "streaming"

\* The invocation awaiting socket s's handshake / microphone request g.
ConnectWaiters(p, s) == {a \in Acts : p.acts[a].pc = "connect" /\ p.acts[a].sock = s}
MicWaiters(p, g) == {a \in Acts : p.acts[a].pc = "mic" /\ p.acts[a].mic = g}

\* main.ts:115: startPushToTalk() after `await audioCapture.start()` resolved.
afterStart(p, a) ==
    [p EXCEPT !.uiStatus = "Listening",
              !.acts[a].pc = "done",
              !.acts[a].result = "ok",
              !.hist.cur = IF p.isHolding /\ a = LastAct(p)
                           THEN [act |-> a, blocks |-> <<>>]
                           ELSE @]

\* main.ts:116-124: ... after it rejected.
startRejected(p, a) ==
    LET p1 == [p EXCEPT !.isHolding = FALSE]
        p2 == CallFinalizeAndClose(p1, "activate")
    IN  [p2 EXCEPT !.uiError = "microphone",
                   !.uiStatus = "MicrophoneError",
                   !.acts[a].pc = "done",
                   !.acts[a].result = "microphoneError"]

\* main.ts:113-114: startPushToTalk() after `await deepgram.connect()` resolved.
afterConnect(p, a) ==
    LET r == start(p)
    IN  IF r.req = 0
        THEN afterStart(r.p, a)
        ELSE [r.p EXCEPT !.acts[a].pc = "mic", !.acts[a].mic = r.req]

\* The catch block of lines 105-110 without its return: falls through to
\* line 113.
connectRejected_NoReturn(p, a) ==
    afterConnect([p EXCEPT !.isHolding = FALSE,
                           !.uiError = "connect",
                           !.uiStatus = "ConnectionError",
                           !.acts[a].result = "connectionError"], a)

\* The catch block of lines 105-110 without line 106.
connectRejected_KeepHolding(p, a) ==
    [p EXCEPT !.uiError = "connect",
              !.uiStatus = "ConnectionError",
              !.acts[a].pc = "done",
              !.acts[a].result = "connectionError"]

\* main.ts:105-110: ... after it rejected.
connectRejected(p, a) ==
    [p EXCEPT !.isHolding = FALSE,
              !.uiError = "connect",
              !.uiStatus = "ConnectionError",
              !.acts[a].pc = "done",
              !.acts[a].result = "connectionError"]

\* startPushToTalk() without the guard of line 97.
startPushToTalk_NoGuard(p) ==
    LET a  == NextAct(p)
        p1 == [p EXCEPT !.isHolding = TRUE,
                        !.uiError = "",
                        !.uiStatus = "Connecting",
                        !.hist.overlapped =
                            @ \/ (\E b \in Acts : p.acts[b].pc \in {"connect", "mic"})]
        r  == connect(p1)
    IN  IF r.ws = 0
        THEN afterConnect([r.p EXCEPT !.acts[a].sock = r.p.socket], a)
        ELSE [r.p EXCEPT !.acts[a].pc = "connect", !.acts[a].sock = r.ws]

\* main.ts:96-104
startPushToTalk(p) ==
    IF p.isHolding
    THEN p
    ELSE LET a  == NextAct(p)
             p1 == [p EXCEPT !.isHolding = TRUE,
                             !.uiError = "",
                             !.uiStatus = "Connecting",
                             !.hist.overlapped =
                                 @ \/ (\E b \in Acts : p.acts[b].pc \in {"connect", "mic"})]
             r  == connect(p1)
         IN  IF r.ws = 0
             THEN afterConnect([r.p EXCEPT !.acts[a].sock = r.p.socket], a)
             ELSE [r.p EXCEPT !.acts[a].pc = "connect", !.acts[a].sock = r.ws]

\* stopPushToTalk() with lines 130 and 131 exchanged.
stopPushToTalk_FinalizeFirst(p) ==
    IF ~p.isHolding
    THEN p
    ELSE LET p1 == [p EXCEPT !.isHolding = FALSE,
                             !.hist.cur = [act |-> 0, blocks |-> <<>>],
                             !.hist.overlapped =
                                 @ \/ (\E b \in Acts : p.acts[b].pc \in {"connect", "mic"})]
             p2 == CallFinalizeAndClose(p1, "deactivate")
             p3 == stop(p2)
         IN  [p3 EXCEPT !.uiStatus = "Idle"]

\* main.ts:127-133
stopPushToTalk(p) ==
    IF ~p.isHolding
    THEN p
    ELSE LET p1 == [p EXCEPT !.isHolding = FALSE,
                             !.hist.cur = [act |-> 0, blocks |-> <<>>],
                             !.hist.overlapped =
                                 @ \/ (\E b \in Acts : p.acts[b].pc \in {"connect", "mic"})]
             p2 == stop(p1)
             p3 == CallFinalizeAndClose(p2, "deactivate")
         IN  [p3 EXCEPT !.uiStatus = "Idle"]

\* --------------------------------------------------------- socket handlers

\* main.ts:72-75: the error sink handed to DeepgramClient
onError(p) ==
    [p EXCEPT !.uiError = "websocket",
              !.uiStatus = "DeepgramError",
              !.hist.errorSinkCalls = @ + 1]

\* main.ts:69-71: the transcript sink handed to DeepgramClient
onTranscript(p, text) ==
    [p EXCEPT !.hist.sinkCalls = @ + 1, !.hist.lastSink = text]

\* ws.onmessage without the trim() test of line 91.
onmessage_NoTrim(p, m) ==
    IF ~m.parse
    THEN [p EXCEPT !.hist.logged = TRUE]
    ELSE IF ToLowerCase(m.type) = "results"
         THEN IF Len(m.alts) >= 1 /\ m.alts[1] # EmptyText
              THEN onTranscript(p, m.alts[1])
              ELSE p
         ELSE p

\* ws.onmessage reporting a parse failure to the error sink.
onmessage_ReportParseError(p, m) ==
    IF ~m.parse
    THEN onError([p EXCEPT !.hist.logged = TRUE])
    ELSE IF ToLowerCase(m.type) = "results"
         THEN IF Len(m.alts) >= 1
              THEN LET transcript == m.alts[1]
                   IN  IF transcript # EmptyText /\ Len(Trim(transcript)) > 0
                       THEN onTranscript(p, transcript)
                       ELSE p
              ELSE p
         ELSE p

\* deepgram.ts:79-105
onmessage(p, m) ==
    IF ~m.parse
    THEN [p EXCEPT !.hist.logged = TRUE]
    ELSE IF ToLowerCase(m.type) = "results"
         THEN IF Len(m.alts) >= 1
              THEN LET transcript == m.alts[1]
                   IN  IF transcript # EmptyText /\ Len(Trim(transcript)) > 0
                       THEN onTranscript(p, transcript)
                       ELSE p
              ELSE p
         ELSE p

\* deepgram.ts:62-66, then the continuation of the awaiting startPushToTalk()
onopen(p, s) ==
    LET p1 == [p EXCEPT !.socket = s]
    IN  IF ConnectWaiters(p1, s) # {}
        THEN afterConnect(p1, CHOOSE a \in ConnectWaiters(p1, s) : TRUE)
        ELSE p1

\* ws.onerror without line 70.
onerror_NoSink(p, s) ==
    IF ConnectWaiters(p, s) # {}
    THEN connectRejected(p, CHOOSE a \in ConnectWaiters(p, s) : TRUE)
    ELSE p

\* deepgram.ts:68-72 with the error sink of main.ts:72-75, then the
\* continuation of the awaiting startPushToTalk(), if the promise was pending
onerror(p, s) ==
    LET p1 == onError(p)
    IN  IF ConnectWaiters(p1, s) # {}
        THEN connectRejected(p1, CHOOSE a \in ConnectWaiters(p1, s) : TRUE)
        ELSE p1

\* deepgram.ts:74-77
onclose(p, s) == [p EXCEPT !.socket = 0]

\* ----------------------------------------------------------------- actions

\* mousedown / keydown on the button (main.ts:136-138, 147-152)
Activate ==
    /\ UsedActs(State) # Acts
    /\ Commit(startPushToTalk(State),
              IF isHolding THEN "activateWhileHolding" ELSE "activate")

\* mouseup / mouseleave / keyup (main.ts:139-144, 153-158)
Deactivate ==
    Commit(stopPushToTalk(State),
           IF isHolding THEN "deactivate" ELSE "deactivateWhileIdle")

\* The handshake of s completes.
SocketOpen(s) ==
    /\ readyState[s] = "CONNECTING"
    /\ Commit(onopen([State EXCEPT !.readyState[s] = "OPEN"], s), "open")

\* The connection of s fails: in one task the socket becomes CLOSED, an
\* error event is fired and then a close event.
SocketFail(s) ==
    /\ readyState[s] \in {"CONNECTING", "OPEN", "CLOSING"}
    /\ Commit(onclose(onerror([State EXCEPT !.readyState[s] = "CLOSED"], s), s), "fail")

\* The closing handshake of s completes, started by close() or by the server.
SocketClose(s) ==
    /\ readyState[s] \in {"OPEN", "CLOSING"}
    /\ Commit(onclose([State EXCEPT !.readyState[s] = "CLOSED"], s), "close")

\* getUserMedia request g resolves; start() and then startPushToTalk() resume.
MicGranted(g) ==
    /\ graph[g].stream = "pending"
    /\ LET p1 == startResume(State, g)
       IN  Commit(afterStart(p1, CHOOSE a \in MicWaiters(p1, g) : TRUE), "micGranted")

\* getUserMedia request g rejects (permission denied, no device).
MicDenied(g) ==
    /\ graph[g].stream = "pending"
    /\ LET p1 == [State EXCEPT !.graph[g].stream = "denied"]
       IN  Commit(startRejected(p1, CHOOSE a \in MicWaiters(p1, g) : TRUE), "micDenied")

\* The processor of graph g delivers a block.
AudioProcess(g, chunk) ==
    /\ graph[g].processing
    /\ hist.chunks < MaxChunks
    /\ Commit(onaudioprocess(State, chunk), "audio")

\* A message of the server arrives on s: while open, and while the closing
\* handshake started by close() has not completed.  The task the browser
\* queues for a received message returns without firing the message event
\* when readyState is not OPEN, so ws.onmessage runs only on an open socket.
MessageEvent(s, m) ==
    /\ readyState[s] \in {"OPEN", "CLOSING"}
    /\ hist.msgs < MaxMsgs
    /\ LET p == [State EXCEPT !.hist.msgs = @ + 1, !.hist.msg = m, !.hist.msgOn = s]
       IN  IF readyState[s] = "OPEN"
           THEN Commit(onmessage(p, m), "message")
           ELSE Commit(p, "messageDiscarded")

Next ==
    \/ Activate
    \/ Deactivate
    \/ \E s \in Sockets : SocketOpen(s)
    \/ \E s \in Sockets : SocketFail(s)
    \/ \E s \in Sockets : SocketClose(s)
    \/ \E g \in Graphs : MicGranted(g)
    \/ \E g \in Graphs : MicDenied(g)
    \/ \E g \in Graphs : \E chunk \in Blocks : AudioProcess(g, chunk)
    \/ \E s \in Sockets : \E m \in Msgs : MessageEvent(s, m)

Spec == Init /\ [][Next]_vars

\* ------------------------------------------------ float32ToLinear16 alone

EncInit ==
    /\ InitProgram
    /\ encIn \in EncInputs
    /\ encOut = << >>

\* deepgram.ts:13-27 applied to the block drawn
Encode ==
    /\ lastOp = "init"
    /\ encOut' = float32ToLinear16(encIn)
    /\ lastOp' = "encode"
    /\ UNCHANGED << progVars, encIn >>

EncNext == Encode

EncSpec == EncInit /\ [][EncNext]_vars

\* ------------------------------------------------------------ properties

Live(s) == readyState[s] \in {"CONNECTING", "OPEN", "CLOSING"}

FinalizeCount(w) == Cardinality({i \in 1..Len(w) : w[i] = FinalizeMessage})

InFlight == {a \in Acts : acts[a].pc \in {"connect", "mic"}}

\* The frames a hold transmits: one binary frame per block, then Finalize.
Encoded(blocks) == [i \in 1..Len(blocks) |-> BinaryFrame(float32ToLinear16(blocks[i]))]

\* C1: at most one transcription session exists at a time: activate() never
\* opens a connection while an earlier one is still connecting, open or
\* closing (its close event not yet delivered).
C1_AtMostOneSession ==
    Cardinality({s \in Sockets : Live(s)}) <= 1

\* C2: when the activate() being held succeeded, n blocks were emitted and
\* deactivate() is called with the connection still open, that connection has
\* transmitted exactly the n encoded blocks in emission order, then one
\* Finalize message, and close() was called on it once; nothing else was sent.
C2_HoldTransmitsBlocksThenFinalize ==
    [][ ( /\ lastOp' = "deactivate"
          /\ hist.cur.act # 0
          /\ readyState[acts[hist.cur.act].sock] = "OPEN" )
        => LET s == acts[hist.cur.act].sock
           IN  /\ wire'[s] = Encoded(hist.cur.blocks) \o << FinalizeMessage >>
               /\ readyState'[s] = "CLOSING"
               /\ hist'.closeCalls[s] = 1 ]_vars

\* C3: deactivate() sends Finalize only after AudioCapture.stop() (the capture
\* is inactive when the message is sent), and on every connection Finalize is
\* the last frame: no audio frame follows it.
C3_StopBeforeFinalize ==
    /\ ~hist.finActive
    /\ \A s \in Sockets : \A i \in 1..Len(wire[s]) :
           wire[s][i] = FinalizeMessage => i = Len(wire[s])

\* A block was delivered after a connection that had carried audio was sent
\* Finalize.
C3_Witness ==
    /\ lastOp = "audio"
    /\ \E s \in Sockets :
           /\ Len(wire[s]) >= 2
           /\ wire[s][1].kind = "binary"
           /\ wire[s][Len(wire[s])] = FinalizeMessage

\* C4: whenever holding is false and no activate() is in flight, the capture
\* is inactive: no microphone stream is live and no processor delivers blocks.
C4_CaptureOnlyWhileHeld ==
    (~isHolding /\ InFlight = {}) =>
        /\ audioContext = 0
        /\ \A g \in Graphs : graph[g].stream # "live" /\ ~graph[g].processing

\* C5: once stop() has returned, the chunk handler is not invoked until
\* start() is called again.
C5_NoChunkAfterStop ==
    [][ hist'.chunks > hist.chunks => ~hist.stopped ]_vars

\* C6: while a connection is connecting or open, connect() creates no
\* further connection.
C6_ConnectWhileConnectedIsNoop ==
    [][ (\E s \in Sockets : readyState[s] \in {"CONNECTING", "OPEN"})
        => \A s \in Sockets : readyState[s] = "NONE" => readyState'[s] = "NONE" ]_vars

\* C7: a connection that was connecting or open when finalizeAndClose() was
\* called does not stay open: the client closes it, also when its handshake
\* completes only after the call.
C7_FinalizedConnectionNotOpen ==
    \A s \in hist.finTargets : readyState[s] # "OPEN"

\* C8: finalizeAndClose() is idempotent: no connection is sent Finalize or
\* closed more than once, and a connection the session was streaming on when
\* finalizeAndClose() was called got exactly one Finalize and one close().
C8_FinalizeIdempotent ==
    \A s \in Sockets :
        /\ hist.finSends[s] <= 1
        /\ hist.closeCalls[s] <= 1
        /\ FinalizeCount(wire[s]) <= 1
        /\ s \in hist.finStreaming =>
               /\ hist.finSends[s] = 1
               /\ hist.closeCalls[s] = 1
               /\ FinalizeCount(wire[s]) = 1
               /\ readyState[s] \in {"CLOSING", "CLOSED"}

\* finalizeAndClose() was called again after it had finalized a streaming
\* connection.
C8_Witness ==
    \E s \in hist.finAgain : hist.finSends[s] = 1 /\ hist.finCalls >= 2

\* C9: sendAudioChunk() called while the session is not Streaming transmits
\* nothing, changes neither the socket reference nor any connection, and
\* throws nothing.
C9_SendOutsideStreamingIsNoop ==
    [][ (lastOp' = "audio" /\ ~isConnected(State))
        => /\ wire' = wire
           /\ socket' = socket
           /\ readyState' = readyState
           /\ ~hist'.threw ]_vars

\* A block was delivered while a handshake was pending and no socket was set.
C9_Witness ==
    /\ lastOp = "audio"
    /\ socket = 0
    /\ \E s \in Sockets : readyState[s] = "CONNECTING"

\* C10: activate() called while holding opens no connection and starts no
\* AudioSource, whatever the holding invocation is waiting for.
C10_ActivateWhileHoldingIsNoop ==
    [][ lastOp' = "activateWhileHolding"
        => /\ readyState' = readyState
           /\ graph' = graph
           /\ hist'.startCalls = hist.startCalls
           /\ isHolding' ]_vars

\* activate() was called again while the first call awaited the handshake.
C10_Witness ==
    /\ lastOp = "activateWhileHolding"
    /\ acts[1].pc = "connect"
    /\ acts[2].pc = "unused"

\* C11: when the connection an activate() awaits fails during the handshake,
\* that activate() ends with holding false, the connection error reported in
\* the UI, and AudioCapture.start() not called.
C11_ConnectRejectionHandled ==
    [][ \A s \in Sockets :
          (readyState[s] = "CONNECTING" /\ readyState'[s] = "CLOSED")
          => /\ ConnectWaiters(State, s) # {}
             /\ \A a \in ConnectWaiters(State, s) :
                    /\ acts'[a].pc = "done"
                    /\ acts'[a].result = "connectionError"
                    /\ acts'[a].mic = 0
             /\ ~isHolding'
             /\ uiError' = "connect"
             /\ uiStatus' = "ConnectionError"
             /\ hist'.startCalls = hist.startCalls
             /\ graph' = graph ]_vars

\* A handshake failed and the activate() awaiting it reported the error.
C11_Witness ==
    /\ lastOp = "fail"
    /\ uiError = "connect"
    /\ ~isHolding
    /\ \E a \in Acts : acts[a].result = "connectionError" /\ readyState[acts[a].sock] = "CLOSED"

\* C12: when getUserMedia is denied to an activate() whose connect() had
\* succeeded, that activate() calls finalizeAndClose(), which finalizes and
\* closes the connection the activation opened if it is still open; holding is
\* false, the microphone error is reported, and no connection is left open.
C12_MicRejectionClosesSession ==
    [][ \A a \in Acts :
          (acts[a].pc = "mic" /\ acts'[a].result = "microphoneError")
          => LET s == acts[a].sock
             IN  /\ hist'.finCalls = hist.finCalls + 1
                 /\ readyState[s] = "OPEN"
                    => /\ readyState'[s] = "CLOSING"
                       /\ wire'[s] = Append(wire[s], FinalizeMessage)
                 /\ ~isHolding'
                 /\ uiError' = "microphone"
                 /\ \A t \in Sockets : readyState'[t] # "OPEN" ]_vars

\* C13: an inbound message invokes the transcript sink, once and with the
\* text as received, exactly when it parses, its type is the result type (in
\* any letter case) and the text of its first alternative has a character
\* that is not white space; every other message invokes it zero times.
C13_SinkIffResultWithText ==
    [][ lastOp' = "message"
        => LET m == hist'.msg
               forwarded ==
                   /\ m.parse
                   /\ m.type \in {"Results", "RESULTS", "results"}
                   /\ Len(m.alts) >= 1
                   /\ \E i \in 1..Len(m.alts[1]) : m.alts[1][i] # Space
           IN  IF forwarded
               THEN /\ hist'.sinkCalls = hist.sinkCalls + 1
                    /\ hist'.lastSink = m.alts[1]
               ELSE /\ hist'.sinkCalls = hist.sinkCalls
                    /\ hist'.lastSink = hist.lastSink ]_vars

\* A result message whose text has leading white space was forwarded as is.
C13_Witness ==
    /\ lastOp = "message"
    /\ hist.msg = Message(TRUE, "Results", << PaddedText >>)
    /\ hist.sinkCalls = 1
    /\ hist.lastSink = PaddedText

\* The task that just ran made an activate() report a connection error or a
\* microphone error.
ErrorJustReported ==
    \/ lastOp = "fail" /\ uiError = "connect"
    \/ lastOp = "micDenied" /\ uiError = "microphone"

\* C14: a task in which activate() reports a connection or microphone error
\* ends with holding false, and an activate() that comes next is not ignored:
\* it sets holding and starts the handshake of a new connection.
C14_RetryAfterError ==
    [][ /\ ErrorJustReported' => ~isHolding'
        /\ (ErrorJustReported /\ lastOp' \in {"activate", "activateWhileHolding"})
           => /\ lastOp' = "activate"
              /\ isHolding'
              /\ \E s \in Sockets :
                    /\ readyState[s] = "NONE"
                    /\ readyState'[s] = "CONNECTING"
                    /\ acts'[LastAct(State')] = [NoAct EXCEPT !.pc = "connect", !.sock = s]
      ]_vars

\* An activate() is awaiting a new handshake after the one before it ended
\* in an error.
C14_Witness ==
    /\ lastOp = "activate"
    /\ ~hist.overlapped
    /\ acts[1].result \in {"connectionError", "microphoneError"}
    /\ acts[2].pc = "connect"
    /\ readyState[acts[2].sock] = "CONNECTING"

\* C15: in a hold that follows completed activate()/deactivate() cycles (no
\* activate() or deactivate() was called while a startPushToTalk() was still
\* awaiting, and no transport error occurred), the connection of the hold is
\* a new one and, while it is open, every block emitted is transmitted on it.
C15_SecondHoldTransmits ==
    [][ ( /\ lastOp' = "audio"
          /\ ~hist.overlapped
          /\ hist.errorSinkCalls = 0
          /\ isHolding
          /\ hist.cur.act > 1
          /\ \A b \in 1..(hist.cur.act - 1) : acts[b].result = "ok"
          /\ readyState[acts[hist.cur.act].sock] = "OPEN" )
        => LET s == acts[hist.cur.act].sock
               blocks == hist'.cur.blocks
           IN  /\ \A b \in 1..(hist.cur.act - 1) : acts[b].sock # s
               /\ wire'[s] = Append(wire[s], BinaryFrame(float32ToLinear16(blocks[Len(blocks)]))) ]_vars

\* C16: float32ToLinear16 returns 2 bytes per sample (none for the empty
\* block); bytes 2i-1 and 2i are the low and the high byte of the two's
\* complement of v, where v in -32768..32767 is the sample clamped to [-1, 1]
\* and multiplied by 32768 if negative and by 32767 otherwise, with the
\* fraction dropped.
C16_EncodeLinear16 ==
    lastOp = "encode"
    => /\ Len(encOut) = 2 * Len(encIn)
       /\ \A i \in 1..Len(encIn) :
            LET lo == encOut[2 * i - 1]
                hi == encOut[2 * i]
                u  == lo + 256 * hi
                v  == IF u >= 32768 THEN u - 65536 ELSE u
                x  == encIn[i]
                c  == IF x > SampleDen THEN SampleDen
                      ELSE IF x < -SampleDen THEN -SampleDen ELSE x
                scale == IF c < 0 THEN 32768 ELSE 32767
            IN  /\ lo \in 0..255
                /\ hi \in 0..255
                /\ v \in -32768..32767
                /\ IF c < 0
                   THEN (v - 1) * SampleDen < c * scale /\ c * scale <= v * SampleDen
                   ELSE v * SampleDen <= c * scale /\ c * scale < (v + 1) * SampleDen

\* The block <<-2.0, 1.0>> was encoded as -32768 and 32767, low byte first.
C16_Witness ==
    /\ lastOp = "encode"
    /\ encIn = << -2 * SampleDen, SampleDen >>
    /\ encOut = << 0, 128, 255, 127 >>

\* C17: a transport error invokes the error sink once, with the generic
\* message (shown unless the connection error of activate() replaces it); on
\* a socket still connecting, the activate() awaiting connect() gets the
\* rejection; on the socket of a Streaming session, the session is no longer
\* connected afterwards; and nothing is ever transmitted on a closed socket.
C17_TransportError ==
    [][ \A s \in Sockets :
          /\ (lastOp' = "fail" /\ readyState[s] # "CLOSED" /\ readyState'[s] = "CLOSED")
             => /\ hist'.errorSinkCalls = hist.errorSinkCalls + 1
                /\ IF readyState[s] = "CONNECTING"
                   THEN \A a \in ConnectWaiters(State, s) :
                           acts'[a].result = "connectionError"
                   ELSE uiError' = "websocket" /\ uiStatus' = "DeepgramError"
                /\ (readyState[s] = "OPEN" /\ socket = s) => ~isConnected(State')
          /\ readyState[s] = "CLOSED" => wire'[s] = wire[s] ]_vars

\* The connection of a hold failed while it was streaming.
C17_Witness ==
    /\ lastOp = "fail"
    /\ hist.errorSinkCalls = 1
    /\ uiError = "websocket"
    /\ isHolding
    /\ acts[1].result = "ok"
    /\ readyState[acts[1].sock] = "CLOSED"
    /\ hist.closeCalls[acts[1].sock] = 0
    /\ acts[2].pc = "unused"

\* The state without the record of which messages arrived.
WithoutMessageLog(p) ==
    [p EXCEPT !.hist.msg = NoMsg, !.hist.msgOn = 0, !.hist.msgs = 0,
              !.hist.logged = FALSE]

\* C18: a message that does not parse changes nothing: neither sink is
\* invoked, the socket reference, the sockets, the coordinator and the UI are
\* as before, so whatever is sent or received later is handled as if the
\* message had not arrived.
C18_MalformedDropped ==
    [][ (lastOp' = "message" /\ ~hist'.msg.parse)
        => /\ WithoutMessageLog(State') = WithoutMessageLog(State)
           /\ hist'.logged ]_vars

\* A result arriving after a malformed message on a Streaming session was
\* forwarded to the transcript sink.
C18_Witness ==
    /\ lastOp = "message"
    /\ hist.logged
    /\ hist.msg = Message(TRUE, "Results", << PaddedText >>)
    /\ hist.sinkCalls = 1
    /\ hist.lastSink = PaddedText
    /\ hist.errorSinkCalls = 0
    /\ isConnected(State)
    /\ isHolding

\* C19: the close event of a socket leaves the client's socket reference
\* alone when the reference points to another socket.
C19_CloseClearsOnlyOwnSocket ==
    [][ \A s \in Sockets :
          (readyState[s] # "CLOSED" /\ readyState'[s] = "CLOSED" /\ socket # s)
          => socket' = socket ]_vars

\* C20: at most one microphone stream is live, and a live stream is the one
\* AudioCapture.mediaStream refers to, so that stop() releases it.
C20_OneLiveStream ==
    /\ Cardinality({g \in Graphs : graph[g].stream = "live"}) <= 1
    /\ \A g \in Graphs : graph[g].stream = "live" => mediaStream = g

\* C21: when the failure path of an activate() runs (its connect() or its
\* start() rejected) after a later activate() was called, holding stays as
\* the later activate() set it, and the connection the later activate()
\* opened stays open.
C21_LateFailureSparesLaterActivation ==
    [][ \A a \in Acts :
          ( /\ acts[a].pc \in {"connect", "mic"}
            /\ acts'[a].result \in {"connectionError", "microphoneError"} )
          => \A b \in Acts :
                (b > a /\ acts[b].pc # "unused")
                => /\ (isHolding /\ b = LastAct(State)) => isHolding'
                   /\ ( /\ acts[b].sock # acts[a].sock
                        /\ readyState[acts[b].sock] = "OPEN" )
                      => readyState'[acts[b].sock] = "OPEN" ]_vars

\* The message is one ws.onmessage forwards: a result whose first alternative
\* has text.
CarriesTranscript(m) ==
    /\ m.parse
    /\ m.type \in {"Results", "RESULTS", "results"}
    /\ Len(m.alts) >= 1
    /\ \E i \in 1..Len(m.alts[1]) : m.alts[1][i] # Space

\* C22: a result message with text that arrives on a connection that carried
\* audio, after finalizeAndClose() sent Finalize and called close() on it and
\* before its close event, is forwarded to the transcript sink.
C22_TrailingResultForwarded ==
    [][ \A s \in Sockets :
          ( /\ hist'.msgs = hist.msgs + 1
            /\ hist'.msgOn = s
            /\ hist.finSends[s] > 0
            /\ hist.closeCalls[s] > 0
            /\ readyState[s] = "CLOSING"
            /\ \E i \in 1..Len(wire[s]) : wire[s][i].kind = "binary"
            /\ CarriesTranscript(hist'.msg) )
          => /\ hist'.sinkCalls = hist.sinkCalls + 1
             /\ hist'.lastSink = hist'.msg.alts[1] ]_vars

====
